---- MODULE Spec2Model ----
(***************************************************************************)
(* A model of radarize/utils/dsp.py: frame reshaping with phase            *)
(* correction, the TDM fold, steering-vector generation, the range-azimuth *)
(* and doppler-azimuth heatmap builders and the normaliser.                *)
(*                                                                         *)
(* Arrays are functions over 0..n-1 (Python indexing).  A complex sample   *)
(* is a pair <<re, im>> of integers (Gaussian integers), so complex        *)
(* products and negations are exact.  Where the code divides (means,       *)
(* normalisation) values are exact rationals <<num, den>>; the rounding    *)
(* of single precision floats is not modelled.                             *)
(***************************************************************************)
EXTENDS Integers, Sequences, FiniteSets, TLC

VARIABLES
    frame,            \* reshape_frame: the RadarFrameFull message
    flip_ods_phase,   \* reshape_frame: argument
    flip_aop_phase,   \* reshape_frame: argument
    radar_cube,       \* reshape_frame: what the call returned or raised
    work,             \* reshape_frame: the numeric work done before it ended
    tdm_args,         \* _tdm: the arguments radar_cube, n_tx, n_rx
    radar_cube_tdm,   \* _tdm: what the call returned
    steer_args,       \* gen_steering_vec: ang_est_range, ang_est_resolution, num_ant
    steer_ret,        \* gen_steering_vec: (num_vec, steering_vectors)
    ra_args,          \* compute_range_azimuth: the cube's shape, angle_res, angle_range, method
    ra_ret,           \* compute_range_azimuth: what the call returned or raised
    caller_cube,      \* the radar cube the caller passes to the doppler-azimuth path
    da_args,          \* compute_doppler_azimuth: the arguments besides the cube
    da_ret,           \* the last call on caller_cube: what it returned or raised
    calls,            \* the calls made on caller_cube so far
    norm_args,        \* normalize: data, its dtype, min_val, max_val
    img,              \* normalize(data, min_val, max_val)
    img2              \* normalize(img, min_val, max_val)

reshape_vars == <<frame, flip_ods_phase, flip_aop_phase, radar_cube, work>>

tdm_vars == <<tdm_args, radar_cube_tdm>>

beam_vars == <<steer_args, steer_ret, ra_args, ra_ret>>

doppler_vars == <<caller_cube, da_args, da_ret, calls>>

norm_vars == <<norm_args, img, img2>>

vars == <<reshape_vars, tdm_vars, beam_vars, doppler_vars, norm_vars>>

(***************************************************************************)
(* Bounds of the model.                                                    *)
(***************************************************************************)
TxLen == 2          \* entries of the tx enable mask
RxLen == 3          \* entries of the rx enable mask
MaxChirps == 2      \* frame.shape[0] ranges over 0..MaxChirps
MaxSamples == 1     \* frame.shape[2] ranges over 0..MaxSamples
MaxAngEstRange == 90  \* gen_steering_vec: ang_est_range ranges over 0..MaxAngEstRange
MaxAngEstRes == 3     \* ang_est_resolution and angle_res range over 0..MaxAngEstRes
MaxNumAnt == 8        \* gen_steering_vec: num_ant ranges over 0..MaxNumAnt
MaxAngleRange == 4    \* compute_range_azimuth: angle_range ranges over 0..MaxAngleRange
MaxRangeBins == 2     \* compute_range_azimuth: radar_cube.shape[2] ranges over 0..MaxRangeBins
MaxDopplerSamples == 3  \* doppler path: radar_cube.shape[2] ranges over 0..MaxDopplerSamples
MaxFactor == 2        \* range_subsampling_factor ranges over 1..MaxFactor
MaxCalls == 2         \* calls made on one caller's cube
MaxLen == 2           \* normalize: the array has 0..MaxLen elements
MaxVal == 2           \* normalize: the elements lie in -MaxVal..MaxVal

(***************************************************************************)
(* Arrays and complex numbers.                                             *)
(***************************************************************************)
ALen(a) == Cardinality(DOMAIN a)

Empty == [k \in {} |-> 0]

CNeg(z) == <<-z[1], -z[2]>>

CMul(z, w) == <<z[1] * w[1] - z[2] * w[2], z[1] * w[2] + z[2] * w[1]>>

\* len(x[start::step]) for an array of n elements
SliceLen(n, start, step) == IF n > start THEN (n - start + step - 1) \div step ELSE 0

\* numpy broadcasting of two one-dimensional operands
BroadcastOK(a, b) == a = b \/ a = 1 \/ b = 1

BroadcastLen(a, b) == IF a = 1 THEN b ELSE a

\* numpy assignment of a one-dimensional value of length src to a slice of length dst
AssignOK(src, dst) == src = dst \/ src = 1

\* element j of x[start::step], the slice having len elements (broadcast when len = 1)
SliceAt(x, start, step, len, j) == x[start + step * (IF len = 1 THEN 0 ELSE j)]

\* "xWR68xx" in platform
Contains(s, t) == \E i \in 0..(Len(s) - Len(t)) : SubSeq(s, i + 1, i + Len(t)) = t

ErrataTag == <<"x", "W", "R", "6", "8", "x", "x">>

\* int(sum(frame.tx))
RECURSIVE SumFrom(_, _)
SumFrom(mask, i) == IF i >= ALen(mask) THEN 0 ELSE mask[i] + SumFrom(mask, i + 1)

\* rx_phase_bias of reshape_frame: a + 1j*b over zip(x[0::2], x[1::2])
RxPhaseBias(flat) ==
    LET n == IF SliceLen(ALen(flat), 0, 2) < SliceLen(ALen(flat), 1, 2)
             THEN SliceLen(ALen(flat), 0, 2) ELSE SliceLen(ALen(flat), 1, 2)
    IN  [v \in 0..(n - 1) |-> <<flat[2 * v], flat[2 * v + 1]>>]

(***************************************************************************)
(* _reshape_frame, adc_output_fmt > 0: lines 62-65.                        *)
(***************************************************************************)
Combine(data) ==
    LET n == ALen(data)
        N == n \div 2
        a0 == SliceLen(n, 0, 4)
        a1 == SliceLen(n, 1, 4)
        a2 == SliceLen(n, 2, 4)
        a3 == SliceLen(n, 3, 4)
        e == SliceLen(N, 0, 2)
        o == SliceLen(N, 1, 2)
        ok1 == BroadcastOK(a0, a2) /\ AssignOK(BroadcastLen(a0, a2), e)
        ok2 == BroadcastOK(a1, a3) /\ AssignOK(BroadcastLen(a1, a3), o)
    IN  [ok |-> ok1 /\ ok2,
         n_combined |-> IF ~ok1 THEN 0 ELSE IF ~ok2 THEN e ELSE e + o,
         cells |-> IF ok1 /\ ok2
                   THEN [k \in 0..(N - 1) |->
                           IF k % 2 = 0
                           THEN <<SliceAt(data, 2, 4, a2, k \div 2), SliceAt(data, 0, 4, a0, k \div 2)>>
                           ELSE <<SliceAt(data, 3, 4, a3, k \div 2), SliceAt(data, 1, 4, a1, k \div 2)>>]
                   ELSE Empty]

(***************************************************************************)
(* The 180 degree flip, lines 70-84.                                       *)
(***************************************************************************)
FlipPhysAopFirst(platform, ods, aop) ==
    IF Contains(platform, ErrataTag)
    THEN IF aop THEN {0, 2} ELSE IF ods THEN {1, 2} ELSE {}
    ELSE {}

\* the physical rx indices whose channel is negated
FlipPhys(platform, ods, aop) ==
    IF Contains(platform, ErrataTag)
    THEN IF ods THEN {1, 2} ELSE IF aop THEN {0, 2} ELSE {}
    ELSE {}

\* the loop over enumerate(rx): the slices c negated, in the order of negation
RECURSIVE FlipLoop(_, _, _, _)
FlipLoop(rx, phys, i_rx, c) ==
    IF i_rx >= ALen(rx) THEN <<>>
    ELSE IF rx[i_rx] # 0
         THEN (IF i_rx \in phys THEN <<c>> ELSE <<>>) \o FlipLoop(rx, phys, i_rx + 1, c + 1)
         ELSE FlipLoop(rx, phys, i_rx + 1, c)

Count(s, x) == Cardinality({p \in 1..Len(s) : s[p] = x})

\* radar_cube[:, c, :] *= -1 for every c of flips, on a cube of n_ant antennas
ApplyFlips(cells, n_ant, n_samples, flips) ==
    [f \in DOMAIN cells |->
        IF Count(flips, (f \div n_samples) % n_ant) % 2 = 1 THEN CNeg(cells[f]) ELSE cells[f]]

(***************************************************************************)
(* The calibration, lines 89-97.                                           *)
(***************************************************************************)
\* v_rx, line 94
CalIndex(i_tx, i_rx, rx) == i_tx * ALen(rx) + i_rx

\* the two loops: the steps [c, v] in the order they are made
RECURSIVE CalLoop(_, _, _, _, _)
CalLoop(tx, rx, i_tx, i_rx, c) ==
    IF i_tx >= ALen(tx) THEN <<>>
    ELSE IF tx[i_tx] = 0 \/ i_rx >= ALen(rx) THEN CalLoop(tx, rx, i_tx + 1, 0, c)
    ELSE IF rx[i_rx] # 0
         THEN <<[c |-> c, v |-> CalIndex(i_tx, i_rx, rx)]>> \o CalLoop(tx, rx, i_tx, i_rx + 1, c + 1)
         ELSE CalLoop(tx, rx, i_tx, i_rx + 1, c)

\* rx_phase_bias[v]; numba compiles without bounds checks, so an index past the
\* end reads whatever follows the array
BiasAt(bias, v, garbage) == IF v \in DOMAIN bias THEN bias[v] ELSE garbage

\* the product of the coefficients applied to slice c
RECURSIVE CalFactor(_, _, _, _, _)
CalFactor(steps, p, c, bias, garbage) ==
    IF p > Len(steps) THEN <<1, 0>>
    ELSE IF steps[p].c = c
         THEN CMul(BiasAt(bias, steps[p].v, garbage), CalFactor(steps, p + 1, c, bias, garbage))
         ELSE CalFactor(steps, p + 1, c, bias, garbage)

ApplyCal(cells, n_ant, n_samples, steps, bias, garbage) ==
    [f \in DOMAIN cells |->
        CMul(cells[f], CalFactor(steps, 1, (f \div n_samples) % n_ant, bias, garbage))]

\* stage: the last of "combine", "flip", "calibrate" the call entered
NoWork ==
    [stage |-> "none", n_combined |-> 0, combined |-> Empty, flips |-> <<>>,
     flipped |-> Empty, cals |-> <<>>]

Raised(kind, w) == [status |-> kind, shape |-> <<>>, cells |-> Empty, work |-> w]

(***************************************************************************)
(* _reshape_frame, adc_output_fmt <= 0: lines 100-102.                     *)
(***************************************************************************)
ReshapeComplexCalibrated(data, rx_phase_bias, n_chirps, rx, n_rx, tx, n_tx, n_samples) ==
    IF n_tx = 0 THEN Raised("ZeroDivisionError", NoWork)
    ELSE IF ALen(data) # (n_chirps \div n_tx) * (n_rx * n_tx) * n_samples
    THEN Raised("ShapeMismatch", NoWork)
    ELSE [status |-> "ok",
          shape |-> <<n_chirps \div n_tx, n_rx * n_tx, n_samples>>,
          cells |-> ApplyCal([k \in DOMAIN data |-> <<data[k], 0>>], n_rx * n_tx, n_samples,
                             CalLoop(tx, rx, 0, 0, 0), rx_phase_bias, <<0, 0>>),
          work |-> NoWork]

ReshapeComplex(data, rx_phase_bias, n_chirps, rx, n_rx, tx, n_tx, n_samples) ==
    IF n_tx = 0 THEN Raised("ZeroDivisionError", NoWork)
    ELSE IF ALen(data) # (n_chirps \div n_tx) * (n_rx * n_tx) * n_samples
    THEN Raised("ShapeMismatch", NoWork)
    ELSE [status |-> "ok",
          shape |-> <<n_chirps \div n_tx, n_rx * n_tx, n_samples>>,
          cells |-> [k \in DOMAIN data |-> <<data[k], 0>>],
          work |-> NoWork]

(***************************************************************************)
(* _reshape_frame, adc_output_fmt > 0: lines 62-97.                        *)
(***************************************************************************)
ReshapeInterleaved(data, platform, rx_phase_bias, n_chirps, rx, n_rx, tx, n_tx, n_samples, ods, aop, garbage) ==
    LET cmb == Combine(data)
        w1 == [NoWork EXCEPT !.stage = "combine", !.n_combined = cmb.n_combined,
                             !.combined = cmb.cells]
        flips == FlipLoop(rx, FlipPhys(platform, ods, aop), 0, 0)
        flipped == ApplyFlips(cmb.cells, n_rx, n_samples, flips)
        w2 == [w1 EXCEPT !.stage = "flip", !.flips = flips, !.flipped = flipped]
        steps == CalLoop(tx, rx, 0, 0, 0)
    IN  IF ~cmb.ok THEN Raised("ShapeMismatch", w1)
        ELSE IF ALen(cmb.cells) # n_chirps * n_rx * n_samples THEN Raised("ShapeMismatch", w1)
        ELSE IF n_tx = 0 THEN Raised("ZeroDivisionError", w2)
        ELSE IF ALen(cmb.cells) # (n_chirps \div n_tx) * (n_rx * n_tx) * n_samples
        THEN Raised("ShapeMismatch", w2)
        ELSE [status |-> "ok",
              shape |-> <<n_chirps \div n_tx, n_rx * n_tx, n_samples>>,
              cells |-> ApplyCal(flipped, n_rx * n_tx, n_samples, steps, rx_phase_bias, garbage),
              work |-> [w2 EXCEPT !.stage = "calibrate", !.cals = steps]]

\* _reshape_frame as reshape_frame calls it (lines 22-42)
ReshapeFrameResult(f, ods, aop, garbage) ==
    LET n_tx == SumFrom(f.tx, 0)
        bias == RxPhaseBias(f.rx_phase_bias)
    IN  IF f.adc_output_fmt > 0
        THEN ReshapeInterleaved(f.data, f.platform, bias, f.shape[1], f.rx, f.shape[2],
                                f.tx, n_tx, f.shape[3], ods, aop, garbage)
        ELSE ReshapeComplex(f.data, bias, f.shape[1], f.rx, f.shape[2], f.tx, n_tx, f.shape[3])

(***************************************************************************)
(* The frames of the model.                                                *)
(***************************************************************************)
Platforms ==
    { <<"x", "W", "R", "1", "8", "x", "x">>,
      <<"T", "I", "-">> \o ErrataTag \o <<"-", "A", "O", "P">> }

AdcFmts == {-1, 0, 1}

\* the flat buffer is this many entries longer than the declared dimensions need
Slacks == {0, 1, 4}

DataSeeds == {0}

\* sample k of the buffer: never zero, so that a negation shows
DataVal(seed, k) == ((k + seed) % 5) + 1

\* entry k of frame.rx_phase_bias: coefficient v is (v + 2) + 1j
BiasVal(k) == IF k % 2 = 0 THEN (k \div 2) + 2 ELSE 1

GarbageVals == {<<0, 0>>, <<7, -3>>}

\* what the array the code indexes past its end may be followed by
OutOfBounds(f) ==
    \E p \in 1..Len(CalLoop(f.tx, f.rx, 0, 0, 0)) :
        CalLoop(f.tx, f.rx, 0, 0, 0)[p].v \notin DOMAIN RxPhaseBias(f.rx_phase_bias)

Pending == [status |-> "pending", shape |-> <<>>, cells |-> Empty]

\* the variables of an operation a specification does not exercise
IdleReshape ==
    /\ frame = [platform |-> <<>>, adc_output_fmt |-> 0, rx_phase_bias |-> Empty,
                shape |-> <<0, 0, 0>>, rx |-> Empty, tx |-> Empty, data |-> Empty]
    /\ flip_ods_phase = FALSE
    /\ flip_aop_phase = FALSE
    /\ radar_cube = [status |-> "idle", shape |-> <<>>, cells |-> Empty]
    /\ work = NoWork

IdleTdm ==
    /\ tdm_args = [radar_cube |-> [shape |-> <<0, 0, 0>>, cells |-> Empty], n_tx |-> 0, n_rx |-> 0]
    /\ radar_cube_tdm = [status |-> "idle", shape |-> <<>>, cells |-> Empty]

IdleSteer ==
    /\ steer_args = [ang_est_range |-> 0, ang_est_resolution |-> 0, num_ant |-> 0]
    /\ steer_ret = [status |-> "idle"]

IdleRangeAzimuth ==
    /\ ra_args = [shape |-> <<0, 0, 0>>, angle_res |-> 0, angle_range |-> 0, method |-> "",
                  singular_bin |-> -1]
    /\ ra_ret = [status |-> "idle"]

IdleDoppler ==
    /\ caller_cube = [shape |-> <<0, 0, 0>>, cells |-> Empty]
    /\ da_args = [angle_res |-> 0, angle_range |-> 0, range_initial_bin |-> 0,
                  range_subsampling_factor |-> 0]
    /\ da_ret = [status |-> "idle"]
    /\ calls = 0

IdleNormalize ==
    /\ norm_args = [data |-> Empty, dtype |-> "", min_val |-> <<>>, max_val |-> <<>>]
    /\ img = [status |-> "idle"]
    /\ img2 = [status |-> "idle"]

InitReshape ==
    \E platform \in Platforms, fmt \in AdcFmts,
       tx \in [0..(TxLen - 1) -> {0, 1}], rx \in [0..(RxLen - 1) -> {0, 1}],
       n_chirps \in 0..MaxChirps, n_samples \in 0..MaxSamples,
       slack \in Slacks, seed \in DataSeeds, full \in BOOLEAN :
        LET n_rx == SumFrom(rx, 0)
            len == (IF fmt > 0 THEN 2 ELSE 1) * n_chirps * n_rx * n_samples + slack
            nb == IF full THEN TxLen * RxLen ELSE SumFrom(tx, 0) * n_rx
        IN  /\ len >= 0
            /\ frame = [platform |-> platform,
                        adc_output_fmt |-> fmt,
                        rx_phase_bias |-> [k \in 0..(2 * nb - 1) |-> BiasVal(k)],
                        shape |-> <<n_chirps, n_rx, n_samples>>,
                        rx |-> rx,
                        tx |-> tx,
                        data |-> [k \in 0..(len - 1) |-> DataVal(seed, k)]]
            /\ flip_ods_phase \in BOOLEAN
            /\ flip_aop_phase \in BOOLEAN
            /\ radar_cube = Pending
            /\ work = NoWork
            /\ IdleTdm
            /\ IdleSteer
            /\ IdleRangeAzimuth
            /\ IdleDoppler
            /\ IdleNormalize

\* reshape_frame(frame, flip_ods_phase, flip_aop_phase)
ReshapeFrame ==
    /\ radar_cube.status = "pending"
    /\ \E garbage \in (IF frame.adc_output_fmt > 0 /\ OutOfBounds(frame)
                       THEN GarbageVals ELSE {<<0, 0>>}) :
        LET r == ReshapeFrameResult(frame, flip_ods_phase, flip_aop_phase, garbage)
        IN  /\ radar_cube' = [status |-> r.status, shape |-> r.shape, cells |-> r.cells]
            /\ work' = r.work
    /\ UNCHANGED <<frame, flip_ods_phase, flip_aop_phase, tdm_vars, beam_vars,
                   doppler_vars, norm_vars>>

NextReshape == ReshapeFrame

SpecReshape == InitReshape /\ [][NextReshape]_vars

(***************************************************************************)
(* Claims about reshape_frame.                                             *)
(***************************************************************************)
Called == radar_cube.status # "pending"

Enabled(mask) == {i \in DOMAIN mask : mask[i] # 0}

\* the position of channel i among the enabled channels
Order(mask, i) == Cardinality({j \in Enabled(mask) : j < i})

\* the antenna of flat cell f in a cube of n_ant antennas
AntennaOf(f, n_ant, n_samples) == (f \div n_samples) % n_ant

\* C1: with adc_output_fmt > 0, the virtual antenna of the enabled transmitter of
\* order t and the enabled receiver of order r is multiplied exactly once, by the
\* calibration coefficient of index t * (number of enabled rx) + r.
C1_CalibrationIndexByEnabledOrder ==
    (radar_cube.status = "ok" /\ frame.adc_output_fmt > 0 /\ ALen(radar_cube.cells) > 0) =>
        \A i_tx \in Enabled(frame.tx), i_rx \in Enabled(frame.rx) :
            LET v == Order(frame.tx, i_tx) * Cardinality(Enabled(frame.rx))
                     + Order(frame.rx, i_rx)
                hits == {p \in 1..Len(work.cals) : work.cals[p].c = v}
            IN  /\ Cardinality(hits) = 1
                /\ \A p \in hits : work.cals[p].v = v

\* C3: on the errata platform the flip is chosen by precedence (ods, else aop),
\* negates exactly the enabled channels of physical index {1,2} (ods) or {0,2}
\* (aop), each once, at the channel's position in enabled order; no other
\* platform and no disabled channel causes a negation.
C3_FlipByPrecedence ==
    (frame.adc_output_fmt > 0 /\ work.stage \in {"flip", "calibrate"}) =>
        LET phys == IF ~Contains(frame.platform, ErrataTag) THEN {}
                    ELSE IF flip_ods_phase THEN {1, 2}
                    ELSE IF flip_aop_phase THEN {0, 2}
                    ELSE {}
            slices == {Order(frame.rx, i) : i \in phys \cap Enabled(frame.rx)}
        IN  /\ \A c \in 0..(RxLen - 1) : Count(work.flips, c) = IF c \in slices THEN 1 ELSE 0
            /\ \A p \in 1..Len(work.flips) : work.flips[p] \in slices
            /\ DOMAIN work.flipped = DOMAIN work.combined
            /\ \A f \in DOMAIN work.flipped :
                  work.flipped[f] =
                      IF AntennaOf(f, frame.shape[2], frame.shape[3]) \in slices
                      THEN CNeg(work.combined[f]) ELSE work.combined[f]

\* both flags set, physical channel 0 disabled: channels 1 and 2 sit at orders 0 and 1
C3_Witness ==
    /\ radar_cube.status = "ok"
    /\ frame.adc_output_fmt > 0
    /\ Contains(frame.platform, ErrataTag)
    /\ flip_ods_phase /\ flip_aop_phase
    /\ frame.rx[0] = 0 /\ frame.rx[1] = 1 /\ frame.rx[2] = 1
    /\ work.flips = <<0, 1>>
    /\ \E f \in DOMAIN work.flipped : work.flipped[f] # work.combined[f]

\* the buffer length is not the one the declared dimensions (n_chirps, n_rx,
\* n_samples and the enabled tx count) need: two reals per cell when interleaved
Inconsistent(f) ==
    LET n_tx == SumFrom(f.tx, 0)
    IN  /\ n_tx > 0
        /\ ALen(f.data) # (IF f.adc_output_fmt > 0 THEN 2 ELSE 1)
                           * (f.shape[1] \div n_tx) * (f.shape[2] * n_tx) * f.shape[3]

\* C4: a frame whose buffer length is inconsistent with the declared dimensions
\* ends in ShapeMismatch, raised before any sample is combined, flipped or
\* calibrated.
C4_ShapeMismatchBeforeWork ==
    (Called /\ Inconsistent(frame)) =>
        /\ radar_cube.status = "ShapeMismatch"
        /\ work.n_combined = 0
        /\ work.flips = <<>>
        /\ work.cals = <<>>

\* C8: with adc_output_fmt <= 0 the call returns the cube of shape
\* (n_chirps // n_tx, n_rx * n_tx, n_samples) holding the samples in buffer
\* order, with no flip and no calibration, whatever the platform, the
\* calibration vector and the flags.
C8_PrecombinedIsPlainReshape ==
    (Called /\ frame.adc_output_fmt <= 0) =>
        LET n_tx == SumFrom(frame.tx, 0)
        IN  /\ work = NoWork
            /\ (n_tx > 0 /\ ALen(frame.data)
                    = (frame.shape[1] \div n_tx) * (frame.shape[2] * n_tx) * frame.shape[3])
                  => radar_cube.status = "ok"
            /\ radar_cube.status = "ok" =>
                  /\ radar_cube.shape
                       = <<frame.shape[1] \div n_tx, frame.shape[2] * n_tx, frame.shape[3]>>
                  /\ DOMAIN radar_cube.cells = DOMAIN frame.data
                  /\ \A k \in DOMAIN frame.data : radar_cube.cells[k] = <<frame.data[k], 0>>

C8_Witness ==
    /\ radar_cube.status = "ok"
    /\ frame.adc_output_fmt <= 0
    /\ Contains(frame.platform, ErrataTag)
    /\ flip_ods_phase
    /\ Cardinality(Enabled(frame.rx)) >= 2
    /\ Cardinality(Enabled(frame.tx)) >= 2
    /\ ALen(frame.rx_phase_bias) > 0
    /\ ALen(radar_cube.cells) >= 4

(***************************************************************************)
(* _tdm, lines 141-153.  A cube is [shape, cells], the cells in C order.   *)
(***************************************************************************)
Size(shape) == shape[1] * shape[2] * shape[3]

\* the flat index of cell [c, a, s]
Flat(shape, c, a, s) == (c * shape[2] + a) * shape[3] + s

ChirpOf(shape, f) == f \div (shape[2] * shape[3])

AntOf(shape, f) == (f \div shape[3]) % shape[2]

SampleOf(shape, f) == f % shape[3]

Zeros(shape) == [shape |-> shape, cells |-> [f \in 0..(Size(shape) - 1) |-> <<0, 0>>]]

DestChirpNoOffset(i, c, n_tx) == c * n_tx

\* row c of the slice i::n_tx
DestChirp(i, c, n_tx) == i + c * n_tx

\* radar_cube_tdm[i::n_tx, i*n_rx:(i+1)*n_rx] = radar_cube[:, i*n_rx:(i+1)*n_rx]
TdmAssign(out, cube, i, n_tx, n_rx) ==
    [out EXCEPT !.cells =
        [f \in DOMAIN out.cells |->
            LET a == AntOf(out.shape, f)
                src == {c \in 0..(cube.shape[1] - 1) :
                            DestChirp(i, c, n_tx) = ChirpOf(out.shape, f)}
            IN  IF src # {} /\ a >= i * n_rx /\ a < (i + 1) * n_rx
                THEN cube.cells[Flat(cube.shape, CHOOSE c \in src : TRUE, a,
                                     SampleOf(out.shape, f))]
                ELSE out.cells[f]]]

RECURSIVE TdmLoop(_, _, _, _, _)
TdmLoop(out, cube, i, n_tx, n_rx) ==
    IF i >= n_tx THEN out
    ELSE TdmLoop(TdmAssign(out, cube, i, n_tx, n_rx), cube, i + 1, n_tx, n_rx)

TdmResult(cube, n_tx, n_rx) ==
    TdmLoop(Zeros(<<cube.shape[1] * n_tx, cube.shape[2], cube.shape[3]>>), cube, 0, n_tx, n_rx)

\* cell f of the source cubes of the model: no two cells alike, none zero
CubeVal(f) == <<f + 1, -(f % 3)>>

\* the antenna counts of a source cube given n_tx and n_rx
AntCounts(n_tx, n_rx) == {n_rx, n_tx * n_rx, n_tx * n_rx + 1}

InitTdm ==
    /\ IdleReshape
    /\ \E C \in 0..MaxChirps, n_tx \in 0..TxLen, n_rx \in 0..RxLen, S \in 0..MaxSamples :
        \E A \in AntCounts(n_tx, n_rx) :
            tdm_args = [radar_cube |-> [shape |-> <<C, A, S>>,
                                        cells |-> [f \in 0..(C * A * S - 1) |-> CubeVal(f)]],
                        n_tx |-> n_tx, n_rx |-> n_rx]
    /\ radar_cube_tdm = Pending
    /\ IdleSteer
    /\ IdleRangeAzimuth
    /\ IdleDoppler
    /\ IdleNormalize

\* _tdm(radar_cube, n_tx, n_rx)
Tdm ==
    /\ radar_cube_tdm.status = "pending"
    /\ LET r == TdmResult(tdm_args.radar_cube, tdm_args.n_tx, tdm_args.n_rx)
       IN  radar_cube_tdm' = [status |-> "ok", shape |-> r.shape, cells |-> r.cells]
    /\ UNCHANGED <<reshape_vars, tdm_args, beam_vars, doppler_vars, norm_vars>>

NextTdm == Tdm

SpecTdm == InitTdm /\ [][NextTdm]_vars

(***************************************************************************)
(* Claims about _tdm.                                                      *)
(***************************************************************************)
Energy(z) == z[1] * z[1] + z[2] * z[2]

RECURSIVE EnergyFrom(_, _)
EnergyFrom(cells, f) == IF f >= ALen(cells) THEN 0 ELSE Energy(cells[f]) + EnergyFrom(cells, f + 1)

\* C2: the fold of a cube of C chirps and n_tx * n_rx virtual antennas has shape
\* (C * n_tx, n_rx * n_tx, S); cell (i + c * n_tx, i * n_rx + r, s) is source cell
\* (c, i * n_rx + r, s), every other cell is zero, and the energy of the
\* populated cells is that of the source cells.
C2_TdmFold ==
    LET src == tdm_args.radar_cube
        n_tx == tdm_args.n_tx
        n_rx == tdm_args.n_rx
        dst == radar_cube_tdm
        populated == {Flat(dst.shape, i + c * n_tx, i * n_rx + r, s) :
                        <<i, c, r, s>> \in (0..(n_tx - 1)) \X (0..(src.shape[1] - 1))
                                           \X (0..(n_rx - 1)) \X (0..(src.shape[3] - 1))}
    IN  (dst.status = "ok" /\ src.shape[2] = n_tx * n_rx) =>
            /\ dst.shape = <<src.shape[1] * n_tx, n_rx * n_tx, src.shape[3]>>
            /\ DOMAIN dst.cells = 0..(Size(dst.shape) - 1)
            /\ \A i \in 0..(n_tx - 1), c \in 0..(src.shape[1] - 1),
                  r \in 0..(n_rx - 1), s \in 0..(src.shape[3] - 1) :
                    dst.cells[Flat(dst.shape, i + c * n_tx, i * n_rx + r, s)]
                        = src.cells[Flat(src.shape, c, i * n_rx + r, s)]
            /\ \A f \in DOMAIN dst.cells : f \notin populated => dst.cells[f] = <<0, 0>>
            /\ EnergyFrom(dst.cells, 0) = EnergyFrom(src.cells, 0)

C2_Witness ==
    /\ radar_cube_tdm.status = "ok"
    /\ tdm_args.n_tx = 2 /\ tdm_args.n_rx = 2
    /\ tdm_args.radar_cube.shape = <<2, 4, 1>>
    /\ radar_cube_tdm.shape = <<4, 4, 1>>
    /\ radar_cube_tdm.cells[Flat(<<4, 4, 1>>, 3, 2, 0)] = CubeVal(Flat(<<2, 4, 1>>, 1, 2, 0))
    /\ radar_cube_tdm.cells[Flat(<<4, 4, 1>>, 3, 0, 0)] = <<0, 0>>

(***************************************************************************)
(* gen_steering_vec, lines 208-228.                                        *)
(***************************************************************************)
\* int(round(n / d)) for d > 0: round to nearest, a tie to the even neighbour
RoundHalfEven(n, d) ==
    LET q == n \div d
        r == n % d
    IN  IF 2 * r < d THEN q
        ELSE IF 2 * r > d THEN q + 1
        ELSE IF q % 2 = 0 THEN q ELSE q + 1

NumVecSymmetric(ang_est_range, ang_est_resolution) ==
    RoundHalfEven(2 * ang_est_range + ang_est_resolution, ang_est_resolution)

\* lines 212-213: int(round((2 * ang_est_range + 1) / ang_est_resolution + 1))
NumVec(ang_est_range, ang_est_resolution) ==
    RoundHalfEven(2 * ang_est_range + 1 + ang_est_resolution, ang_est_resolution)

\* The entry [kk, jj] is exp(-1j * pi * jj * sin(angle_deg[kk] * pi / 180)): the
\* matrix is kept as its shape and the angle, in degrees, of each row.
GenSteeringVec(ang_est_range, ang_est_resolution, num_ant) ==
    IF ang_est_resolution = 0 THEN [status |-> "ZeroDivisionError"]
    ELSE LET num_vec == NumVec(ang_est_range, ang_est_resolution)
         IN  [status |-> "ok",
              num_vec |-> num_vec,
              steering_vectors |->
                  [shape |-> <<num_vec, num_ant>>,
                   angle_deg |-> [kk \in 0..(num_vec - 1) |->
                                    -ang_est_range - 1 + kk * ang_est_resolution]]]

InitSteer ==
    /\ IdleReshape
    /\ IdleTdm
    /\ IdleRangeAzimuth
    /\ IdleDoppler
    /\ IdleNormalize
    /\ steer_args \in [ang_est_range : 0..MaxAngEstRange,
                       ang_est_resolution : 0..MaxAngEstRes,
                       num_ant : 0..MaxNumAnt]
    /\ steer_ret = [status |-> "pending"]

\* gen_steering_vec(ang_est_range, ang_est_resolution, num_ant)
GenSteeringVecCall ==
    /\ steer_ret.status = "pending"
    /\ steer_ret' = GenSteeringVec(steer_args.ang_est_range, steer_args.ang_est_resolution,
                                   steer_args.num_ant)
    /\ UNCHANGED <<reshape_vars, tdm_vars, steer_args, ra_args, ra_ret, doppler_vars,
                   norm_vars>>

NextSteer == GenSteeringVecCall

SpecSteer == InitSteer /\ [][NextSteer]_vars

\* the call the claim is about
SteerCall90 ==
    /\ steer_ret.status = "ok"
    /\ steer_args = [ang_est_range |-> 90, ang_est_resolution |-> 1, num_ant |-> 8]

\* C6 as stated: gen_steering_vec(90, 1, 8) returns a row count of 181 and a
\* matrix of 181 angle rows and 8 antenna columns.
C6_Rows181 ==
    SteerCall90 =>
        /\ steer_ret.num_vec = 181
        /\ steer_ret.steering_vectors.shape = <<181, 8>>

\* C6 as amended: gen_steering_vec(90, 1, 8) returns a row count of 182 and a
\* matrix of 182 angle rows (-91 to 90 degrees) and 8 antenna columns.
C6_Rows182 ==
    SteerCall90 =>
        /\ steer_ret.num_vec = 182
        /\ steer_ret.steering_vectors.shape = <<182, 8>>
        /\ DOMAIN steer_ret.steering_vectors.angle_deg = 0..181
        /\ steer_ret.steering_vectors.angle_deg[0] = -91
        /\ steer_ret.steering_vectors.angle_deg[181] = 90

C6_Witness == SteerCall90 /\ steer_ret.num_vec > 0

(***************************************************************************)
(* compute_range_azimuth, lines 267-299.  The heatmap's values (FFT,       *)
(* matrix inverse, logarithm) are not modelled: the call is kept as the    *)
(* sizes it computes and how it ends.  Whether the covariance of a range   *)
(* bin can be inverted depends on the samples: singular_bin is the first   *)
(* bin whose covariance cannot (-1: none).                                 *)
(***************************************************************************)
\* line 273
NAngleBins(angle_range, angle_res) == (angle_range * 2 + 1) \div angle_res + 1

\* numpy.fft.fft over an axis of n points raises ValueError for n < 1
FftRaises(n) == n < 1

ComputeRangeAzimuth(shape, angle_res, angle_range, method, singular_bin) ==
    LET n_range_bins == shape[3]
        n_rx == shape[2]
        n_angle_bins == NAngleBins(angle_range, angle_res)
        sv == GenSteeringVec(angle_range, angle_res, n_rx)
        sizes == [n_angle_bins |-> n_angle_bins, num_vec |-> sv.num_vec]
    IN  IF angle_res = 0 THEN [status |-> "ZeroDivisionError"]
        ELSE IF FftRaises(n_range_bins)
        THEN [status |-> "InvalidFFTSize", n_angle_bins |-> n_angle_bins]
        ELSE IF method # "capon" THEN [status |-> "UnsupportedMethod"] @@ sizes
        ELSE IF singular_bin = 0 THEN [status |-> "SingularCovariance"] @@ sizes
        ELSE IF sv.num_vec # n_angle_bins THEN [status |-> "ShapeMismatch"] @@ sizes
        ELSE IF singular_bin \in 1..(n_range_bins - 1)
        THEN [status |-> "SingularCovariance"] @@ sizes
        ELSE [status |-> "ok", shape |-> <<n_range_bins, n_angle_bins>>] @@ sizes

Methods == {"capon", "apes", "bartlett"}

InitRangeAzimuth ==
    /\ IdleReshape
    /\ IdleTdm
    /\ IdleSteer
    /\ IdleDoppler
    /\ IdleNormalize
    /\ \E n_chirps \in 0..MaxChirps, n_rx \in 0..RxLen, n_range_bins \in 0..MaxRangeBins :
        \E singular_bin \in -1..(n_range_bins - 1) :
            \* without a chirp the covariance of a bin is 0/0 and cannot be inverted
            /\ (n_chirps = 0 /\ n_rx > 0 /\ n_range_bins > 0) => singular_bin = 0
            /\ ra_args \in [shape : {<<n_chirps, n_rx, n_range_bins>>},
                         angle_res : 0..MaxAngEstRes,
                         angle_range : 0..MaxAngleRange,
                         method : Methods,
                         singular_bin : {singular_bin}]
    /\ ra_ret = [status |-> "pending"]

\* compute_range_azimuth(radar_cube, angle_res, angle_range, method)
ComputeRangeAzimuthCall ==
    /\ ra_ret.status = "pending"
    /\ ra_ret' = ComputeRangeAzimuth(ra_args.shape, ra_args.angle_res, ra_args.angle_range,
                                     ra_args.method, ra_args.singular_bin)
    /\ UNCHANGED <<reshape_vars, tdm_vars, steer_args, steer_ret, ra_args, doppler_vars,
                   norm_vars>>

NextRangeAzimuth == ComputeRangeAzimuthCall

SpecRangeAzimuth == InitRangeAzimuth /\ [][NextRangeAzimuth]_vars

\* C5: with a method other than "capon" (and a usable angle_res) the call fails
\* with UnsupportedMethod for every cube, one with no range samples included.
C5_UnsupportedMethodForEveryCube ==
    (ra_ret.status \notin {"idle", "pending"} /\ ra_args.method # "capon"
        /\ ra_args.angle_res > 0) =>
            ra_ret.status = "UnsupportedMethod"

\* C10: for positive angle_range and angle_res the number of angle columns of
\* the heatmap, (2 * angle_range + 1) // angle_res + 1, is the number of steering
\* vectors gen_steering_vec makes.
C10_AngleBinsMatchSteeringVectors ==
    (ra_ret.status \in {"ok", "UnsupportedMethod", "SingularCovariance", "ShapeMismatch"}
        /\ ra_args.angle_res > 0 /\ ra_args.angle_range > 0) =>
            ra_ret.n_angle_bins = ra_ret.num_vec

(***************************************************************************)
(* Exact rationals <<num, den>>, den > 0, in lowest terms.  <<0, 0>> is    *)
(* NaN.                                                                    *)
(***************************************************************************)
Abs(n) == IF n < 0 THEN -n ELSE n

RECURSIVE GCD(_, _)
GCD(a, b) == IF b = 0 THEN a ELSE GCD(b, a % b)

Rat(n, d) == LET g == GCD(Abs(n), d) IN <<n \div g, d \div g>>

NaN == <<0, 0>>

IsNaN(x) == x[2] = 0

RSub(x, y) == Rat(x[1] * y[2] - y[1] * x[2], x[2] * y[2])

RAdd(x, y) == Rat(x[1] * y[2] + y[1] * x[2], x[2] * y[2])

RLess(x, y) == x[1] * y[2] < y[1] * x[2]

\* a complex number with rational parts
CSub(z, w) == <<RSub(z[1], w[1]), RSub(z[2], w[2])>>

CAdd(z, w) == <<RAdd(z[1], w[1]), RAdd(z[2], w[2])>>

CDivInt(z, k) == <<Rat(z[1][1], z[1][2] * k), Rat(z[2][1], z[2][2] * k)>>

CZero == <<<<0, 1>>, <<0, 1>>>>

(***************************************************************************)
(* compute_doppler_azimuth, lines 301-337, and preprocess_1d_radar_1843,   *)
(* lines 351-375.  The heatmap's values (FFT, logarithm) are not modelled: *)
(* a heatmap is its shape.  The cube is modelled cell by cell.             *)
(***************************************************************************)
\* the cells of radar_cube[:, :, range_initial_bin::range_subsampling_factor]
InView(shape, f, initial, factor) ==
    SampleOf(shape, f) >= initial /\ (SampleOf(shape, f) - initial) % factor = 0

\* get_mean(radar_cube_, axis=0) at antenna a, sample s: np.sum / x.shape[0]
RECURSIVE ChirpSum(_, _, _, _)
ChirpSum(cube, c, a, s) ==
    IF c >= cube.shape[1] THEN CZero
    ELSE CAdd(cube.cells[Flat(cube.shape, c, a, s)], ChirpSum(cube, c + 1, a, s))

GetMean(cube, a, s) == CDivInt(ChirpSum(cube, 0, a, s), cube.shape[1])

\* lines 316-317: radar_cube_ is a view of the argument and -= writes through it
SubtractMean(cube, initial, factor) ==
    [cube EXCEPT !.cells =
        [f \in DOMAIN cube.cells |->
            IF InView(cube.shape, f, initial, factor)
            THEN CSub(cube.cells[f], GetMean(cube, AntOf(cube.shape, f), SampleOf(cube.shape, f)))
            ELSE cube.cells[f]]]

\* what the call returns or raises (ret) and the argument after it (cube)
ComputeDopplerAzimuth(cube, angle_res, angle_range, range_initial_bin, range_subsampling_factor) ==
    LET n_chirps == cube.shape[1]
        n_rx == cube.shape[2]
        sv == GenSteeringVec(angle_range, angle_res, n_rx)
        after == SubtractMean(cube, range_initial_bin, range_subsampling_factor)
    IN  IF angle_res = 0 THEN [ret |-> [status |-> "ZeroDivisionError"], cube |-> cube]
        ELSE IF FftRaises(n_chirps)
        THEN [ret |-> [status |-> "InvalidFFTSize"], cube |-> after]
        ELSE [ret |-> [status |-> "ok", shape |-> <<n_chirps, sv.num_vec>>], cube |-> after]

\* resize_shape, line 358; cv2.resize takes (width, height)
ResizeShape == <<48, 48>>

\* normalize raises on an empty heatmap (np.max of no element); the values of a
\* heatmap are not modelled
Preprocess1dRadar1843(cube, angle_res, angle_range, range_subsampling_factor) ==
    LET r == ComputeDopplerAzimuth(cube, angle_res, angle_range, 0, range_subsampling_factor)
    IN  IF r.ret.status # "ok" THEN r
        ELSE IF r.ret.shape[1] * r.ret.shape[2] = 0
        THEN [r EXCEPT !.ret = [status |-> "ValueError"]]
        ELSE [r EXCEPT !.ret = [status |-> "ok", shape |-> <<ResizeShape[2], ResizeShape[1]>>]]

CubePatterns == {"ramp", "zero"}

DopplerCell(pattern, f) ==
    IF pattern = "ramp" THEN <<<<CubeVal(f)[1], 1>>, <<CubeVal(f)[2], 1>>>> ELSE CZero

InitDoppler ==
    /\ IdleReshape
    /\ IdleTdm
    /\ IdleSteer
    /\ IdleRangeAzimuth
    /\ IdleNormalize
    /\ \E n_chirps \in 0..MaxChirps, n_rx \in 0..TxLen, n_samples \in 0..MaxDopplerSamples,
          pattern \in CubePatterns :
            caller_cube = [shape |-> <<n_chirps, n_rx, n_samples>>,
                           cells |-> [f \in 0..(n_chirps * n_rx * n_samples - 1) |->
                                        DopplerCell(pattern, f)]]
    /\ da_args \in [angle_res : 0..MaxAngEstRes,
                    angle_range : 0..MaxAngleRange,
                    range_initial_bin : 0..1,
                    range_subsampling_factor : 1..MaxFactor]
    /\ da_ret = [status |-> "pending"]
    /\ calls = 0

\* compute_doppler_azimuth(radar_cube, angle_res, angle_range, range_initial_bin,
\* range_subsampling_factor)
ComputeDopplerAzimuthCall ==
    /\ da_ret.status # "idle"
    /\ calls < MaxCalls
    /\ LET r == ComputeDopplerAzimuth(caller_cube, da_args.angle_res, da_args.angle_range,
                                      da_args.range_initial_bin,
                                      da_args.range_subsampling_factor)
       IN  /\ da_ret' = r.ret
           /\ caller_cube' = r.cube
    /\ calls' = calls + 1
    /\ UNCHANGED <<reshape_vars, tdm_vars, beam_vars, da_args, norm_vars>>

\* preprocess_1d_radar_1843(radar_cube, angle_res, angle_range, range_subsampling_factor)
Preprocess1dRadar1843Call ==
    /\ da_ret.status # "idle"
    /\ calls < MaxCalls
    /\ LET r == Preprocess1dRadar1843(caller_cube, da_args.angle_res, da_args.angle_range,
                                      da_args.range_subsampling_factor)
       IN  /\ da_ret' = r.ret
           /\ caller_cube' = r.cube
    /\ calls' = calls + 1
    /\ UNCHANGED <<reshape_vars, tdm_vars, beam_vars, da_args, norm_vars>>

NextDoppler == ComputeDopplerAzimuthCall \/ Preprocess1dRadar1843Call

SpecDoppler == InitDoppler /\ [][NextDoppler]_vars

\* C7: compute_doppler_azimuth, and preprocess_1d_radar_1843 which calls it,
\* leave every cell of the caller's radar cube unchanged.
C7_CallerCubeUnchanged == [][caller_cube' = caller_cube]_vars

(***************************************************************************)
(* normalize, lines 340-349.  An element is a rational or NaN; an optional *)
(* bound is <<>> (None) or <<value>>.                                      *)
(***************************************************************************)
ClipLowerOnly(x) == IF IsNaN(x) THEN x ELSE IF RLess(x, <<0, 1>>) THEN <<0, 1>> ELSE x

\* .clip(0.0, 1.0): NaN stays NaN
Clip(x) ==
    IF IsNaN(x) THEN x
    ELSE IF RLess(x, <<0, 1>>) THEN <<0, 1>>
    ELSE IF RLess(<<1, 1>>, x) THEN <<1, 1>>
    ELSE x

\* ((x - lo) / (hi - lo)).clip(0.0, 1.0): a division by zero gives NaN (0/0) or an
\* infinity, which clip brings to 0 or 1
NormElem(x, lo, hi) ==
    LET num == RSub(x, lo)
        den == RSub(hi, lo)
    IN  IF IsNaN(x) \/ IsNaN(lo) \/ IsNaN(hi) THEN NaN
        ELSE IF den[1] = 0
             THEN IF num[1] = 0 THEN NaN ELSE IF num[1] > 0 THEN <<1, 1>> ELSE <<0, 1>>
        ELSE Clip(IF den[1] > 0 THEN Rat(num[1] * den[2], num[2] * den[1])
                  ELSE Rat(-(num[1] * den[2]), -(num[2] * den[1])))

\* .astype(data.dtype) of a clipped value: an integer dtype truncates, and the
\* conversion of NaN to an integer is undefined (nan_cast is what the build gives)
AsType(x, dtype, nan_cast) ==
    IF dtype = "float" THEN x
    ELSE IF IsNaN(x) THEN nan_cast
    ELSE IF x = <<1, 1>> THEN <<1, 1>> ELSE <<0, 1>>

\* np.min(data), np.max(data): NaN when an element is NaN
ArrayMin(data) ==
    IF \E k \in DOMAIN data : IsNaN(data[k]) THEN NaN
    ELSE CHOOSE m \in {data[k] : k \in DOMAIN data} :
            \A k \in DOMAIN data : ~RLess(data[k], m)

ArrayMax(data) ==
    IF \E k \in DOMAIN data : IsNaN(data[k]) THEN NaN
    ELSE CHOOSE m \in {data[k] : k \in DOMAIN data} :
            \A k \in DOMAIN data : ~RLess(m, data[k])

Normalize(data, dtype, min_val, max_val, nan_cast) ==
    IF (min_val = <<>> \/ max_val = <<>>) /\ ALen(data) = 0
    THEN [status |-> "ValueError"]
    ELSE LET lo == IF min_val = <<>> THEN ArrayMin(data) ELSE min_val[1]
             hi == IF max_val = <<>> THEN ArrayMax(data) ELSE max_val[1]
         IN  [status |-> "ok",
              data |-> [k \in DOMAIN data |-> AsType(NormElem(data[k], lo, hi), dtype, nan_cast)]]

\* The conversion of NaN to an integer may give any integer (the most negative one
\* on x86, 0 on ARM): a large negative integer and 0 stand for the outcomes.
NanCastOutcomes == {<<-1000000, 1>>, <<0, 1>>}

\* the elements an array of the dtype holds: halves for floats, and NaN
Elements(dtype) ==
    IF dtype = "float"
    THEN {Rat(k, 2) : k \in (-2 * MaxVal)..(2 * MaxVal)} \cup {NaN}
    ELSE {<<k, 1>> : k \in (-MaxVal)..MaxVal}

OptionalBounds == {<<>>, <<<<-1, 1>>>>, <<<<0, 1>>>>, <<<<1, 1>>>>, <<<<2, 1>>>>}

InitNormalize ==
    /\ IdleReshape
    /\ IdleTdm
    /\ IdleSteer
    /\ IdleRangeAzimuth
    /\ IdleDoppler
    /\ \E dtype \in {"float", "int"}, n \in 0..MaxLen :
        norm_args \in [data : [0..(n - 1) -> Elements(dtype)],
                       dtype : {dtype},
                       min_val : OptionalBounds,
                       max_val : OptionalBounds]
    /\ img = [status |-> "pending"]
    /\ img2 = [status |-> "pending"]

\* whether a call on the array meets a NaN to convert to an integer
CastsNaN(data, dtype, min_val, max_val) ==
    /\ dtype = "int"
    /\ \E c \in NanCastOutcomes :
          Normalize(data, dtype, min_val, max_val, c)
              # Normalize(data, dtype, min_val, max_val, <<0, 1>>)

\* img = normalize(data, min_val, max_val)
NormalizeCall ==
    /\ img.status = "pending"
    /\ \E nan_cast \in (IF CastsNaN(norm_args.data, norm_args.dtype, norm_args.min_val,
                                    norm_args.max_val)
                        THEN NanCastOutcomes ELSE {<<0, 1>>}) :
          img' = Normalize(norm_args.data, norm_args.dtype, norm_args.min_val,
                           norm_args.max_val, nan_cast)
    /\ UNCHANGED <<reshape_vars, tdm_vars, beam_vars, doppler_vars, norm_args, img2>>

\* img2 = normalize(img, min_val, max_val)
NormalizeAgainCall ==
    /\ img.status = "ok"
    /\ img2.status = "pending"
    /\ \E nan_cast \in (IF CastsNaN(img.data, norm_args.dtype, norm_args.min_val,
                                    norm_args.max_val)
                        THEN NanCastOutcomes ELSE {<<0, 1>>}) :
          img2' = Normalize(img.data, norm_args.dtype, norm_args.min_val,
                            norm_args.max_val, nan_cast)
    /\ UNCHANGED <<reshape_vars, tdm_vars, beam_vars, doppler_vars, norm_args, img>>

NextNormalize == NormalizeCall \/ NormalizeAgainCall

SpecNormalize == InitNormalize /\ [][NextNormalize]_vars

\* elementwise ==: NaN equals nothing
ElemEq(x, y) == ~IsNaN(x) /\ ~IsNaN(y) /\ x = y

InUnitInterval(x) == ~IsNaN(x) /\ ~RLess(x, <<0, 1>>) /\ ~RLess(<<1, 1>>, x)

NormalizedTwice01 ==
    /\ img2.status = "ok"
    /\ norm_args.min_val = <<<<0, 1>>>>
    /\ norm_args.max_val = <<<<1, 1>>>>

IdempotentInUnitInterval ==
    /\ DOMAIN img2.data = DOMAIN img.data
    /\ \A k \in DOMAIN img.data :
          /\ ElemEq(img2.data[k], img.data[k])
          /\ InUnitInterval(img.data[k])
          /\ InUnitInterval(img2.data[k])

\* C9 as stated: for every array x, normalize(normalize(x, 0, 1), 0, 1) equals
\* normalize(x, 0, 1) elementwise and every output element lies in [0, 1].
C9_IdempotentEveryArray == NormalizedTwice01 => IdempotentInUnitInterval

\* C9 as amended: the same for every array x that holds no NaN.
C9_IdempotentWithoutNaN ==
    (NormalizedTwice01 /\ \A k \in DOMAIN norm_args.data : ~IsNaN(norm_args.data[k]))
        => IdempotentInUnitInterval

\* an element above 1 and one below 0 are clipped, and stay so
C9_Witness ==
    /\ NormalizedTwice01
    /\ norm_args.dtype = "float"
    /\ norm_args.data = (0 :> <<3, 2>> @@ 1 :> <<-1, 2>>)
    /\ img.data = (0 :> <<1, 1>> @@ 1 :> <<0, 1>>)
    /\ img2 = img

====
